---- MODULE Spec2Model ----
(***************************************************************************)
(* State-machine model of release-changelog.go: one invocation of main,    *)
(* from the state right after flag.Parse to process exit.                  *)
(*                                                                         *)
(* Go strings are sequences of one-character strings, so that              *)
(* concatenation (+), len and strings.Contains are computed, not assumed.  *)
(* Each external call (Kafka, GitHub, the npm registry) is one action      *)
(* whose response is drawn from a small set.                               *)
(*                                                                         *)
(* The variable run maps an invocation to its state.  Spec has the single  *)
(* invocation; SpecPair has two invocations of the same command line that  *)
(* differ in --dry-run only and receive the same responses.                *)
(***************************************************************************)
EXTENDS Integers, Sequences, FiniteSets

VARIABLES run

vars == << run >>

---------------------------------------------------------------------------
(* Bounds *)

MaxReads == 2
MaxCommits == 2
MaxPRs == 2

---------------------------------------------------------------------------
(* Values of the inputs and of the responses *)

Empty == << >>
Widget == <<"w", "i", "d", "g", "e", "t">>
Acme == <<"a", "c", "m", "e">>
RegistryUrl == <<"h", "t", "t", "p", "s", ":", "/", "/", "r">>
ExplicitTag == <<"v", "1", ".", "0", ".", "2">>
ReleaseBranch == <<"r", "e", "l", "e", "a", "s", "e">>
Master == <<"m", "a", "s", "t", "e", "r">>
Topic == <<"n", "p", "m">>
Broker == <<"k", ":", "9">>
MsgUnrelated == <<"u", "n", "r", "e", "l", "a", "t", "e", "d", "-", "r", "e", "p", "o", " ", "v", "1">>
MsgWidget == <<"w", "i", "d", "g", "e", "t", " ", "v", "2">>
MsgMyWidget == <<"m", "y", "-", "w", "i", "d", "g", "e", "t", " ", "v", "3">>
PkgName == <<"@", "a", "c", "m", "e", "/", "w", "i", "d", "g", "e", "t">>
V230 == <<"2", ".", "3", ".", "0">>
VV230 == <<"v", "2", ".", "3", ".", "0">>
FixBug == <<"f", "i", "x", " ", "b", "u", "g">>
Alice == <<"a", "l", "i", "c", "e">>
AddTest == <<"a", "d", "d", " ", "t", "e", "s", "t">>
Bob == <<"b", "o", "b">>
MainBranch == <<"m", "a", "i", "n">>
Develop == <<"d", "e", "v", "e", "l", "o", "p">>

SeqsUpTo(S, n) == UNION { [1..k -> S] : k \in 0..n }

\* the values flag.Parse can leave in the package-level variables
Flags ==
  [ repo : {Empty, Widget}, owner : {Empty, Acme}, registry : {Empty, RegistryUrl},
    tag : {Empty, ExplicitTag}, targetRef : {Empty, ReleaseBranch},
    pr : {-1, 0, 42}, commit : {Master}, kafkaTopic : {Empty, Topic} ]

\* os.Getenv("KAFKA_BOOTSTRAP_SERVERS")
BootstrapServers == {Empty, Broker}

\* outcome of one c.ReadMessage(-1): an error, or a message with a payload
ReadOutcomes ==
  [ err : {TRUE}, Value : {Empty} ]
    \cup [ err : {FALSE}, Value : {MsgUnrelated, MsgWidget, MsgMyWidget} ]

\* registry answers: dist-tags.latest, "" when the field is absent
Versions == {Empty, V230, VV230}

PrNumbers == {7, 42}

\* GET /repos/<owner>/<repo>/commits/<commit>/pulls
PullsResponses ==
  [ err : {"nil"}, PRs : SeqsUpTo(PrNumbers, MaxPRs) ]
    \cup [ err : {"newRequest", "transport", "unmarshal"}, PRs : {<< >>} ]

CommitNodes ==
  { [MessageHeadline |-> FixBug, Login |-> Alice],
    [MessageHeadline |-> AddTest, Login |-> Bob] }

NoRepository == [ BaseRefName |-> Empty, Nodes |-> << >> ]

\* answers to PullRequestQuery
PullRequestResponses ==
  [ err : {"nil"},
    Repository : [ BaseRefName : {MainBranch, Develop},
                   Nodes : SeqsUpTo(CommitNodes, MaxCommits) ] ]
    \cup [ err : {"graphql"}, Repository : {NoRepository} ]

\* outcome of client.Do for the POST: a transport error or any HTTP status
PublishResponses ==
  [ err : {"nil"}, status : {201, 422} ]
    \cup [ err : {"newRequest", "transport"}, status : {0} ]

NoRelease == [ TagName |-> Empty, TargetCommitish |-> Empty, Name |-> Empty, Body |-> Empty ]

---------------------------------------------------------------------------
(* Library functions *)

\* strings.Contains(s, substr)
Contains(s, substr) ==
  \E i \in 1..(Len(s) - Len(substr) + 1) :
     SubSeq(s, i, i + Len(substr) - 1) = substr

\* fmt's %q for payloads without characters that need escaping
Quote(s) == <<"\"">> \o s \o <<"\"">>

\* fmt.Println(s)
Println(s) == s \o <<"\n">>

---------------------------------------------------------------------------
(* One invocation right after flag.Parse *)

InitRun(f, dry, servers) ==
  [ repo |-> f.repo, owner |-> f.owner, registry |-> f.registry,
    tag |-> f.tag, targetCommitish |-> f.targetRef, pr |-> f.pr,
    commit |-> f.commit, dryRun |-> dry, kafkaTopic |-> f.kafkaTopic,
    argv |-> f,
    bootstrapServers |-> servers,
    pc |-> "main",
    consumer |-> "none",
    subscribed |-> FALSE,
    reads |-> << >>,
    closedAt |-> -1,
    name |-> Empty,
    version |-> Empty,
    PRs |-> << >>,
    repository |-> NoRepository,
    output |-> Empty,
    release |-> NoRelease,
    err |-> "nil",
    calls |-> << >>,
    prQueries |-> << >>,
    posted |-> << >>,
    status |-> 0,
    stdout |-> << >>,
    log |-> "",
    exitCode |-> -1 ]

\* mutant of Fatal: the message is logged and the process exits with 0
FatalExitZero(s, msg) == [ s EXCEPT !.pc = "exited", !.log = msg, !.exitCode = 0 ]

\* log.Fatal(msg): the message goes to standard error, then os.Exit(1)
Fatal(s, msg) == [ s EXCEPT !.pc = "exited", !.log = msg, !.exitCode = 1 ]

\* err != nil after a stage call: log.Fatal(err)
FatalErr(s, e) == Fatal([ s EXCEPT !.err = e ], e)

\* os.Exit(0), or main returning
Exit0(s) == [ s EXCEPT !.pc = "exited", !.exitCode = 0 ]

Call(s, fn) == [ s EXCEPT !.calls = Append(@, fn) ]

---------------------------------------------------------------------------
(* main, lines 202-243: the pull-request and release stages *)

\* mutant of BuildChangelog: output = instead of output +=
BuildChangelogLastOnly(nodes) ==
  IF Len(nodes) = 0 THEN Empty
  ELSE LET node == nodes[Len(nodes)]
       IN  <<"*", " ">> \o node.MessageHeadline \o <<" ", "@">> \o node.Login \o <<"\n">>

\* the loop of lines 216-219
RECURSIVE BuildChangelog(_)
BuildChangelog(nodes) ==
  IF Len(nodes) = 0 THEN Empty
  ELSE LET node == nodes[Len(nodes)]
       IN  BuildChangelog(SubSeq(nodes, 1, Len(nodes) - 1))
             \o <<"*", " ">> \o node.MessageHeadline \o <<" ", "@">> \o node.Login \o <<"\n">>

\* line 238
Header(s) ==
  s.owner \o <<"/">> \o s.repo \o <<" ", "-", " ">> \o s.targetCommitish \o <<":">> \o s.tag

\* mutant of ReleaseStage: the release is published before the details of
\* the pull request are fetched
ReleaseStagePublishFirst(s) ==
  IF s.pr > 0 THEN [ s EXCEPT !.pc = "publishRelease" ] ELSE Exit0(s)

\* mutant of ReleaseStage: every pr other than 0 is released
ReleaseStageNonZero(s) ==
  IF s.pr # 0 THEN [ s EXCEPT !.pc = "getRepositoryPullRequest" ] ELSE Exit0(s)

\* line 210: the release stage runs for a positive pr, otherwise main returns
ReleaseStage(s) ==
  IF s.pr > 0 THEN [ s EXCEPT !.pc = "getRepositoryPullRequest" ] ELSE Exit0(s)

\* mutant of PullRequestStage: the lookup runs although --pr was given
PullRequestStageAlways(s) ==
  IF Len(s.repo) # 0
  THEN [ s EXCEPT !.pc = "getPullRequestNumber" ]
  ELSE ReleaseStage(s)

\* line 203
PullRequestStage(s) ==
  IF s.pr = 0 /\ Len(s.repo) # 0
  THEN [ s EXCEPT !.pc = "getPullRequestNumber" ]
  ELSE ReleaseStage(s)

\* mutant of VersionStage: the version is resolved although --tag was given
VersionStageAlways(s) ==
  IF Len(s.repo) # 0
  THEN [ s EXCEPT !.pc = "getNpmPackageName" ]
  ELSE PullRequestStage(s)

\* line 188
VersionStage(s) ==
  IF Len(s.tag) = 0 /\ Len(s.repo) # 0
  THEN [ s EXCEPT !.pc = "getNpmPackageName" ]
  ELSE PullRequestStage(s)

\* mutant of TriggerConfigured: one of the two settings is enough
TriggerConfiguredEither(s) == Len(s.bootstrapServers) > 0 \/ Len(s.kafkaTopic) > 0

\* line 181
TriggerConfigured(s) == Len(s.bootstrapServers) > 0 /\ Len(s.kafkaTopic) > 0

\* lines 163-186: the required flags, then the decision to wait for a message
MainStart(s) ==
  IF Len(s.repo) = 0 THEN Fatal(s, "repo is a required parameter")
  ELSE IF Len(s.owner) = 0 THEN Fatal(s, "owner is a required parameter")
  ELSE IF Len(s.registry) = 0 THEN Fatal(s, "registry is a required parameter")
  ELSE IF TriggerConfigured(s)
       THEN [ s EXCEPT !.pc = "NewConsumer" ]
       ELSE VersionStage(s)

---------------------------------------------------------------------------
(* subscribeToKafkaForRepoMessage, lines 245-273 *)

\* kafka.NewConsumer and c.Subscribe; the result of Subscribe is discarded
NewConsumerResponses ==
  [ err : {"nil"}, subscribeFailed : BOOLEAN ]
    \cup [ err : {"kafka"}, subscribeFailed : {FALSE} ]

SubscribeStep(s, resp) ==
  LET c == Call(s, "NewConsumer")
  IN  IF resp.err # "nil" THEN FatalErr(c, resp.err)
      ELSE [ Call(c, "Subscribe") EXCEPT
               !.consumer = "open",
               !.subscribed = ~resp.subscribeFailed,
               !.stdout = Append(@, Println(
                  <<"S", "u", "b", "s", "c", "r", "i", "b", "e", "d", " ", "t", "o", " ">>
                  \o s.kafkaTopic
                  \o <<"a", "n", "d", " ", "w", "a", "i", "t", "i", "n", "g", " ",
                       "f", "o", "r", " ", "m", "e", "s", "s", "a", "g", "e">>)),
               !.pc = "ReadMessage" ]

\* mutant of CloseConsumer: the consumer is closed without Unsubscribe
CloseOnly(s) ==
  [ Call(s, "Close") EXCEPT !.consumer = "closed", !.subscribed = FALSE ]

\* lines 270-272
CloseConsumer(s) ==
  [ Call(Call(s, "Unsubscribe"), "Close") EXCEPT !.consumer = "closed", !.subscribed = FALSE ]

\* mutant of IsRepoMessage: any message that was read ends the wait
IsAnyMessage(m, repo) == ~m.err

\* lines 261-262
IsRepoMessage(m, repo) == ~m.err /\ Contains(m.Value, repo)

\* mutant of ReadMessageStep: a failed read is returned to main
ReadMessageStepReturnErr(s, m) ==
  LET c == [ Call(s, "ReadMessage") EXCEPT !.reads = Append(@, m) ]
  IN  IF m.err THEN FatalErr(c, "kafka")
      ELSE IF IsRepoMessage(m, s.repo)
      THEN VersionStage(CloseConsumer(
             [ c EXCEPT !.stdout = @ \o << <<"\n">> \o Quote(m.Value) \o <<"\n">>,
                                           s.repo \o <<" ", "h", "a", "s", " ", "b", "e", "e", "n", " ",
                                                       "p", "u", "b", "l", "i", "s", "h", "e", "d", "\n">> >> ]))
      ELSE c

\* one iteration of the loop of lines 259-268
ReadMessageStep(s, m) ==
  LET c == [ Call(s, "ReadMessage") EXCEPT !.reads = Append(@, m) ]
  IN  IF IsRepoMessage(m, s.repo)
      THEN VersionStage(CloseConsumer(
             [ c EXCEPT !.stdout = @ \o << <<"\n">> \o Quote(m.Value) \o <<"\n">>,
                                           s.repo \o <<" ", "h", "a", "s", " ", "b", "e", "e", "n", " ",
                                                       "p", "u", "b", "l", "i", "s", "h", "e", "d", "\n">> >> ]))
      ELSE c

---------------------------------------------------------------------------
(* The version stage, lines 188-200, with getNpmPackageName and
   getLatestVersion *)

PackageNameResponses ==
  [ err : {"nil"}, Name : {PkgName, Empty} ]
    \cup [ err : {"graphql", "unmarshal"}, Name : {Empty} ]

GetNpmPackageNameStep(s, resp) ==
  LET c == Call(s, "getNpmPackageName")
  IN  IF resp.err # "nil" THEN FatalErr(c, resp.err)
      ELSE [ c EXCEPT !.name = resp.Name, !.pc = "getLatestVersion" ]

LatestVersionResponses ==
  [ err : {"nil"}, Latest : Versions ]
    \cup [ err : {"newRequest", "transport", "unmarshal"}, Latest : {Empty} ]

\* mutant of ReleaseTag: a version that starts with v is taken as it is
ReleaseTagNormalized(version) ==
  IF Len(version) > 0 /\ version[1] = "v" THEN version ELSE <<"v">> \o version

\* mutant of ReleaseTag: the version without a prefix
ReleaseTagBare(version) == version

\* line 198
ReleaseTag(version) == <<"v">> \o version

GetLatestVersionStep(s, resp) ==
  LET c == Call(s, "getLatestVersion")
  IN  IF resp.err = "newRequest" THEN Fatal(c, resp.err)
      ELSE IF resp.err # "nil" THEN FatalErr(c, resp.err)
      ELSE PullRequestStage([ c EXCEPT !.version = resp.Latest, !.tag = ReleaseTag(resp.Latest) ])

---------------------------------------------------------------------------
(* The pull-request stage, lines 202-208, with getPullRequestNumber *)

\* mutant of FirstPullRequest: the last element wins
LastPullRequest(PRs) == IF Len(PRs) > 0 THEN PRs[Len(PRs)] ELSE 0

\* lines 361-371: the number of the first element, 0 for an empty list
FirstPullRequest(PRs) == IF Len(PRs) > 0 THEN PRs[1] ELSE 0

GetPullRequestNumberStep(s, resp) ==
  LET c == Call(s, "getPullRequestNumber")
  IN  IF resp.err = "newRequest" THEN Fatal(c, resp.err)
      ELSE IF resp.err # "nil" THEN FatalErr(c, resp.err)
      ELSE ReleaseStage([ c EXCEPT !.PRs = resp.PRs, !.pr = FirstPullRequest(resp.PRs) ])

---------------------------------------------------------------------------
(* The release stage, lines 210-242, with getRepositoryPullRequest and
   publishRelease *)

\* mutant of PublishOrPrint: --dry-run is not looked at
PublishAlways(r) == [ r EXCEPT !.pc = "publishRelease" ]

\* line 231
PublishOrPrint(r) ==
  IF ~r.dryRun THEN [ r EXCEPT !.pc = "publishRelease" ] ELSE [ r EXCEPT !.pc = "print" ]

\* line 229
NewRelease(t) ==
  [ t EXCEPT !.release = [ TagName |-> t.tag, TargetCommitish |-> t.targetCommitish,
                           Name |-> t.tag, Body |-> t.output ] ]

\* mutant of DefaultTargetCommitish: the base branch replaces --targetRef
OverwriteTargetCommitish(o) ==
  [ o EXCEPT !.targetCommitish = o.repository.BaseRefName ]

\* lines 225-227
DefaultTargetCommitish(o) ==
  [ o EXCEPT !.targetCommitish = IF @ = Empty THEN o.repository.BaseRefName ELSE @ ]

\* mutant of BuildRelease: no check of the tag
BuildReleaseUnchecked(o) ==
  PublishOrPrint(NewRelease(DefaultTargetCommitish(o)))

\* lines 221-236
BuildRelease(o) ==
  IF o.tag = Empty THEN Fatal(o, "Need to provide tag to publish release")
  ELSE PublishOrPrint(NewRelease(DefaultTargetCommitish(o)))

\* PRs, the list decoded inside getPullRequestNumber, is gone by now
GetRepositoryPullRequestStep(s, resp) ==
  LET c == [ Call(s, "getRepositoryPullRequest") EXCEPT
               !.prQueries = Append(@, s.pr), !.PRs = << >> ]
  IN  IF resp.err # "nil" THEN FatalErr(c, resp.err)
      ELSE BuildRelease([ c EXCEPT !.repository = resp.Repository,
                                   !.output = BuildChangelog(resp.Repository.Nodes) ])

\* mutant of PublishReleaseStep: a failed request is sent again
PublishReleaseRetry(s, resp) ==
  LET c == [ Call(s, "publishRelease") EXCEPT !.posted = Append(@, s.release) ]
  IN  IF resp.err # "nil" THEN [ c EXCEPT !.err = resp.err ]
      ELSE [ c EXCEPT !.pc = "print" ]

\* mutant of PublishReleaseStep: the error is recorded and the run goes on
PublishReleaseIgnoreErr(s, resp) ==
  LET c == [ Call(s, "publishRelease") EXCEPT !.posted = Append(@, s.release) ]
  IN  IF resp.err # "nil" THEN [ c EXCEPT !.err = resp.err, !.pc = "print" ]
      ELSE [ c EXCEPT !.pc = "print" ]

\* mutant of PublishReleaseStep: a response that is not a 2xx is an error
PublishReleaseCheckStatus(s, resp) ==
  LET c == [ Call(s, "publishRelease") EXCEPT !.posted = Append(@, s.release) ]
  IN  IF resp.err = "newRequest" THEN Fatal(c, resp.err)
      ELSE IF resp.err # "nil" THEN FatalErr(c, resp.err)
      ELSE IF resp.status >= 300 THEN FatalErr([ c EXCEPT !.status = resp.status ], "status")
      ELSE [ c EXCEPT !.status = resp.status, !.pc = "print" ]

PublishReleaseStep(s, resp) ==
  LET c == [ Call(s, "publishRelease") EXCEPT !.posted = Append(@, s.release) ]
  IN  IF resp.err = "newRequest" THEN Fatal(c, resp.err)
      ELSE IF resp.err # "nil" THEN FatalErr(c, resp.err)
      ELSE [ c EXCEPT !.status = resp.status, !.pc = "print" ]

\* lines 238-241
PrintRelease(s) ==
  Exit0([ s EXCEPT !.stdout = @ \o << Println(Header(s)), s.output >> ])

---------------------------------------------------------------------------
(* Actions.  A step is taken by every invocation that stands at the
   action's position; the invocations of SpecPair receive the same
   response. *)

At(p) == { r \in DOMAIN run : run[r].pc = p }

Start ==
  /\ At("main") # {}
  /\ run' = [ r \in DOMAIN run |->
                IF run[r].pc = "main" THEN MainStart(run[r]) ELSE run[r] ]

NewConsumer ==
  \E resp \in NewConsumerResponses :
     /\ At("NewConsumer") # {}
     /\ run' = [ r \in DOMAIN run |->
                   IF run[r].pc = "NewConsumer" THEN SubscribeStep(run[r], resp) ELSE run[r] ]

\* the channel is closed from outside while the listener waits in
\* c.ReadMessage(-1); closedAt keeps the number of reads made before
ExternalClose ==
  /\ At("ReadMessage") # {}
  /\ \A r \in At("ReadMessage") : run[r].closedAt = -1
  /\ run' = [ r \in DOMAIN run |->
                IF run[r].pc = "ReadMessage"
                THEN [ run[r] EXCEPT !.closedAt = Len(run[r].reads) ] ELSE run[r] ]

\* a message can only arrive on a subscribed consumer of an open channel;
\* the number of reads is bounded by MaxReads
ReadMessage ==
  \E m \in ReadOutcomes :
     /\ At("ReadMessage") # {}
     /\ \A r \in At("ReadMessage") :
           /\ Len(run[r].reads) < MaxReads
           /\ (m.err \/ (run[r].subscribed /\ run[r].closedAt = -1))
     /\ run' = [ r \in DOMAIN run |->
                   IF run[r].pc = "ReadMessage" THEN ReadMessageStep(run[r], m) ELSE run[r] ]

GetNpmPackageName ==
  \E resp \in PackageNameResponses :
     /\ At("getNpmPackageName") # {}
     /\ run' = [ r \in DOMAIN run |->
                   IF run[r].pc = "getNpmPackageName"
                   THEN GetNpmPackageNameStep(run[r], resp) ELSE run[r] ]

GetLatestVersion ==
  \E resp \in LatestVersionResponses :
     /\ At("getLatestVersion") # {}
     /\ run' = [ r \in DOMAIN run |->
                   IF run[r].pc = "getLatestVersion"
                   THEN GetLatestVersionStep(run[r], resp) ELSE run[r] ]

GetPullRequestNumber ==
  \E resp \in PullsResponses :
     /\ At("getPullRequestNumber") # {}
     /\ run' = [ r \in DOMAIN run |->
                   IF run[r].pc = "getPullRequestNumber"
                   THEN GetPullRequestNumberStep(run[r], resp) ELSE run[r] ]

GetRepositoryPullRequest ==
  \E resp \in PullRequestResponses :
     /\ At("getRepositoryPullRequest") # {}
     /\ run' = [ r \in DOMAIN run |->
                   IF run[r].pc = "getRepositoryPullRequest"
                   THEN GetRepositoryPullRequestStep(run[r], resp) ELSE run[r] ]

PublishRelease ==
  \E resp \in PublishResponses :
     /\ At("publishRelease") # {}
     /\ run' = [ r \in DOMAIN run |->
                   IF run[r].pc = "publishRelease"
                   THEN PublishReleaseStep(run[r], resp) ELSE run[r] ]

PrintAndExit ==
  /\ At("print") # {}
  /\ run' = [ r \in DOMAIN run |->
                IF run[r].pc = "print" THEN PrintRelease(run[r]) ELSE run[r] ]

Next ==
  \/ Start
  \/ NewConsumer
  \/ ExternalClose
  \/ ReadMessage
  \/ GetNpmPackageName
  \/ GetLatestVersion
  \/ GetPullRequestNumber
  \/ GetRepositoryPullRequest
  \/ PublishRelease
  \/ PrintAndExit

\* one invocation
Init ==
  \E f \in Flags, dry \in BOOLEAN, servers \in BootstrapServers :
     run = [ r \in {"run"} |-> InitRun(f, dry, servers) ]

Spec == Init /\ [][Next]_vars

\* two invocations of one command line, without and with --dry-run
InitPair ==
  \E f \in Flags, servers \in BootstrapServers :
     run = [ r \in {"real", "dry"} |-> InitRun(f, r = "dry", servers) ]

SpecPair == InitPair /\ [][Next]_vars

TypeOK ==
  \A r \in DOMAIN run :
     /\ run[r].pc \in { "main", "NewConsumer", "ReadMessage", "getNpmPackageName",
                        "getLatestVersion", "getPullRequestNumber",
                        "getRepositoryPullRequest", "publishRelease", "print", "exited" }
     /\ run[r].exitCode \in {-1, 0, 1}
     /\ (run[r].pc = "exited") = (run[r].exitCode # -1)

---------------------------------------------------------------------------
(* Vocabulary of the properties *)

Runs == DOMAIN run

Count(seq, x) == Cardinality({ i \in DOMAIN seq : seq[i] = x })

Called(s, fn) == Count(s.calls, fn) > 0

Exited(s) == s.pc = "exited"

\* the release record of line 229 has been built
Resolved(s) == s.release # NoRelease

\* what lines 238-239 write
ReleaseOutput(tag, targetCommitish, owner, repo, output) ==
  << owner \o <<"/">> \o repo \o <<" ", "-", " ">> \o targetCommitish \o <<":">> \o tag
       \o <<"\n">>,
     output >>

\* the number of writes of the listener: one after Subscribe, two on the match
ListenerWrites(s) ==
  IF s.consumer = "none" THEN 0 ELSE IF s.consumer = "open" THEN 1 ELSE 3

\* standard output ends with the release output
PrintedRelease(s) ==
  /\ Len(s.stdout) = ListenerWrites(s) + 2
  /\ SubSeq(s.stdout, Len(s.stdout) - 1, Len(s.stdout))
       = ReleaseOutput(s.tag, s.targetCommitish, s.owner, s.repo, s.output)

\* nothing but the listener has written to standard output
NoReleaseOutput(s) == Len(s.stdout) = ListenerWrites(s)

RequiredFlagsGiven(s) == s.repo # Empty /\ s.owner # Empty /\ s.registry # Empty

---------------------------------------------------------------------------
(* C1 *)

SameResolvedInputs ==
  /\ Resolved(run["real"]) /\ Resolved(run["dry"])
  /\ run["real"].tag = run["dry"].tag
  /\ run["real"].targetCommitish = run["dry"].targetCommitish
  /\ run["real"].repository.Nodes = run["dry"].repository.Nodes

\* C1 as stated: two invocations that differ in --dry-run only and resolve
\* the same tag, target commitish and commit list: once both have ended, the
\* dry run has not called publishRelease and has printed what the real run
\* has printed.  (Violated when the real run's publish fails.)
C1_AsStated ==
  (SameResolvedInputs /\ Exited(run["real"]) /\ Exited(run["dry"]))
    => /\ ~Called(run["dry"], "publishRelease")
       /\ run["dry"].stdout = run["real"].stdout

\* C1 amended: the dry run never calls publishRelease; once both invocations
\* have ended with the same resolved inputs, the dry run has printed the
\* header line and the changelog body, and the real run has printed exactly
\* the same if its publishRelease returned without error, and no release
\* output at all if its publishRelease failed.
C1_DryRunEquivalence ==
  /\ ~Called(run["dry"], "publishRelease") /\ run["dry"].posted = << >>
  /\ (SameResolvedInputs /\ Exited(run["real"]) /\ Exited(run["dry"]))
       => /\ PrintedRelease(run["dry"])
          /\ run["dry"].exitCode = 0
          /\ (run["real"].exitCode = 0 => run["dry"].stdout = run["real"].stdout)
          /\ (run["real"].exitCode # 0 =>
                /\ NoReleaseOutput(run["real"])
                /\ run["real"].calls[Len(run["real"].calls)] = "publishRelease")

\* both invocations ended with exit status 0, the real one after one publish,
\* with two commits in the changelog
C1_Witness ==
  /\ SameResolvedInputs /\ Exited(run["real"]) /\ Exited(run["dry"])
  /\ run["real"].exitCode = 0 /\ run["dry"].exitCode = 0
  /\ Len(run["real"].posted) = 1
  /\ Len(run["real"].repository.Nodes) = 2
  /\ PrintedRelease(run["real"])

---------------------------------------------------------------------------
(* C2 *)

\* C2: in every run publishRelease is called at most once, whatever the
\* outcomes of the stages, a publish error included.
C2_AtMostOnePublish ==
  \A r \in Runs :
     /\ Count(run[r].calls, "publishRelease") <= 1
     /\ Len(run[r].posted) <= 1

\* a run whose only publish attempt failed
C2_Witness ==
  \E r \in Runs :
     /\ Exited(run[r]) /\ run[r].err = "transport"
     /\ Count(run[r].calls, "publishRelease") = 1

---------------------------------------------------------------------------
(* C3 *)

\* C3: with a non-empty --tag neither getNpmPackageName nor getLatestVersion
\* is called, and the tag of the run, of the release record and of every
\* posted release is the explicit tag.
C3_ExplicitTagSkipsVersion ==
  \A r \in Runs :
     run[r].argv.tag # Empty =>
       /\ ~Called(run[r], "getNpmPackageName")
       /\ ~Called(run[r], "getLatestVersion")
       /\ run[r].tag = run[r].argv.tag
       /\ (Resolved(run[r]) => run[r].release.TagName = run[r].argv.tag)
       /\ \A i \in DOMAIN run[r].posted : run[r].posted[i].TagName = run[r].argv.tag
       /\ (Exited(run[r]) /\ run[r].exitCode = 0 /\ Resolved(run[r]) => PrintedRelease(run[r]))

\* a release was posted under the explicit tag
C3_Witness ==
  \E r \in Runs :
     /\ run[r].argv.tag = ExplicitTag
     /\ Exited(run[r]) /\ run[r].exitCode = 0
     /\ Len(run[r].posted) = 1 /\ run[r].posted[1].TagName = ExplicitTag

---------------------------------------------------------------------------
(* C4 *)

\* C4: with --pr greater than 0 getPullRequestNumber is never called and
\* every pull-request query asks for exactly the explicit number.
C4_ExplicitPrSkipsLookup ==
  \A r \in Runs :
     run[r].argv.pr > 0 =>
       /\ ~Called(run[r], "getPullRequestNumber")
       /\ run[r].pr = run[r].argv.pr
       /\ \A i \in DOMAIN run[r].prQueries : run[r].prQueries[i] = run[r].argv.pr

\* the details of the explicit pull request were fetched
C4_Witness ==
  \E r \in Runs :
     /\ run[r].argv.pr = 42
     /\ run[r].prQueries = << 42 >>
     /\ Resolved(run[r])

---------------------------------------------------------------------------
(* C5 *)

\* C5: every release handed to publishRelease has a non-empty tagName, and
\* at the tag check an empty tag ends the run fatally without a publish:
\* from every state in which the pull-request query is outstanding, the
\* same step taken with an empty tag exits with a non-zero status and
\* leaves the publish calls as they were.
C5_TagNonEmptyAtPublish ==
  \A r \in Runs :
     /\ \A i \in DOMAIN run[r].posted : run[r].posted[i].TagName # Empty
     /\ (run[r].pc = "publishRelease" => run[r].release.TagName # Empty)
     /\ (run[r].log = "Need to provide tag to publish release" => run[r].posted = << >>)
     /\ run[r].pc = "getRepositoryPullRequest" =>
          \A resp \in { q \in PullRequestResponses : q.err = "nil" } :
             LET t == GetRepositoryPullRequestStep([ run[r] EXCEPT !.tag = Empty ], resp)
             IN  /\ t.pc = "exited" /\ t.exitCode # 0
                 /\ t.log = "Need to provide tag to publish release"
                 /\ t.posted = run[r].posted
                 /\ ~Called(t, "publishRelease")

\* publishRelease was called, with a resolved tag
C5_Witness ==
  \E r \in Runs :
     /\ Len(run[r].posted) = 1
     /\ run[r].posted[1].TagName = <<"v">> \o V230
     /\ Called(run[r], "getRepositoryPullRequest")

---------------------------------------------------------------------------
(* C6 *)

\* C6: targetCommitish is --targetRef whenever that is non-empty and is never
\* overwritten; otherwise, once the pull-request details are fetched, it is
\* the baseRefName of that pull request; the release record, every posted
\* release and the printed header line carry this same value.
C6_TargetCommitish ==
  \A r \in Runs :
     LET s == run[r]
         expected == IF s.argv.targetRef # Empty THEN s.argv.targetRef
                     ELSE s.repository.BaseRefName
     IN  /\ (s.argv.targetRef # Empty => s.targetCommitish = s.argv.targetRef)
         /\ Resolved(s) =>
              /\ s.targetCommitish = expected
              /\ s.release.TargetCommitish = expected
              /\ \A i \in DOMAIN s.posted : s.posted[i].TargetCommitish = expected
              /\ (Exited(s) /\ s.exitCode = 0 =>
                    s.stdout[Len(s.stdout) - 1]
                      = s.owner \o <<"/">> \o s.repo \o <<" ", "-", " ">> \o expected
                          \o <<":">> \o s.tag \o <<"\n">>)

\* a release without --targetRef was posted and printed for the base branch
C6_Witness ==
  \E r \in Runs :
     /\ run[r].argv.targetRef = Empty
     /\ run[r].repository.BaseRefName = Develop
     /\ Len(run[r].posted) = 1 /\ run[r].posted[1].TargetCommitish = Develop
     /\ Exited(run[r]) /\ run[r].exitCode = 0

---------------------------------------------------------------------------
(* C7 *)

\* the i-th read of the run returned a message whose payload contains repo
MatchingRead(s, i) == ~s.reads[i].err /\ Contains(s.reads[i].Value, s.repo)

ListenerReturned(s) == s.consumer = "closed"

\* C7: the listener returns exactly upon the first successfully read message
\* whose payload contains the repository name: while it waits no read so far
\* matched, and once it has returned the last read is the only matching one
\* and no further message is read; each read is one ReadMessage call.  After
\* 'unrelated-repo v1' and 'widget v2' with repo 'widget' the listener has
\* returned with exactly two messages consumed, and after 'unrelated-repo
\* v1' alone it still waits.
C7_FirstMatchingMessage ==
  \A r \in Runs :
     LET s == run[r]
     IN  /\ Count(s.calls, "ReadMessage") = Len(s.reads)
         /\ (s.pc = "ReadMessage" => \A i \in DOMAIN s.reads : ~MatchingRead(s, i))
         /\ (s.reads # << >> /\ ~ListenerReturned(s) => s.pc = "ReadMessage")
         /\ (ListenerReturned(s) =>
               /\ s.reads # << >>
               /\ MatchingRead(s, Len(s.reads))
               /\ \A i \in 1..(Len(s.reads) - 1) : ~MatchingRead(s, i)
               /\ s.pc # "ReadMessage")
         /\ (s.repo = Widget /\ Len(s.reads) >= 1
               /\ s.reads[1] = [err |-> FALSE, Value |-> MsgUnrelated]
               => (Len(s.reads) = 1 => s.pc = "ReadMessage" /\ ~ListenerReturned(s)))
         /\ (s.repo = Widget
               /\ s.reads = << [err |-> FALSE, Value |-> MsgUnrelated],
                               [err |-> FALSE, Value |-> MsgWidget] >>
               => ListenerReturned(s))
         /\ (s.repo = Widget /\ s.reads # << >>
               /\ s.reads[Len(s.reads)] = [err |-> FALSE, Value |-> MsgMyWidget]
               => ListenerReturned(s))

\* the scenario: two messages consumed, the listener has returned
C7_Witness ==
  \E r \in Runs :
     /\ run[r].repo = Widget
     /\ run[r].reads = << [err |-> FALSE, Value |-> MsgUnrelated],
                          [err |-> FALSE, Value |-> MsgWidget] >>
     /\ ListenerReturned(run[r])
     /\ Count(run[r].calls, "ReadMessage") = 2

---------------------------------------------------------------------------
(* C8 *)

BrokerAndTopicGiven(s) == s.bootstrapServers # Empty /\ s.kafkaTopic # Empty

\* the listener was entered
TriggerStageRan(s) == s.pc = "NewConsumer" \/ Called(s, "NewConsumer")

\* C8: in a run that has passed the required-flag checks the trigger stage
\* runs if and only if both the broker address and the topic are non-empty;
\* when either is empty no consumer is created, no message is read, nothing
\* is written by a listener, and the run is at the version resolution or a
\* later stage.
C8_TriggerOnlyWhenConfigured ==
  \A r \in Runs :
     LET s == run[r]
     IN  (s.pc # "main" /\ RequiredFlagsGiven(s)) =>
           /\ TriggerStageRan(s) <=> BrokerAndTopicGiven(s)
           /\ ~BrokerAndTopicGiven(s) =>
                /\ s.consumer = "none"
                /\ ~Called(s, "NewConsumer") /\ ~Called(s, "Subscribe")
                /\ ~Called(s, "ReadMessage") /\ s.reads = << >>
                /\ s.pc \in { "getNpmPackageName", "getLatestVersion", "getPullRequestNumber",
                              "getRepositoryPullRequest", "publishRelease", "print", "exited" }
                /\ (s.calls # << >> =>
                      s.calls[1] \in { "getNpmPackageName", "getPullRequestNumber",
                                       "getRepositoryPullRequest" })

\* a broker without a topic: the run went straight to the version resolution
C8_Witness ==
  \E r \in Runs :
     /\ run[r].bootstrapServers = Broker /\ run[r].kafkaTopic = Empty
     /\ run[r].pc = "getNpmPackageName"
     /\ run[r].calls = << >>

---------------------------------------------------------------------------
(* C9 *)

\* C9: a run that has printed the release after a successful publish or in
\* dry-run mode has exit status 0; a missing required flag, and an error
\* returned by any stage (listener, package name, version, commit-to-PR
\* lookup, PR details, publish) has ended the run at once with a non-zero
\* status: the failing call is the last call of the run.
C9_ExitStatus ==
  \A r \in Runs :
     LET s == run[r]
     IN  /\ (Exited(s) /\ Resolved(s) /\ s.err = "nil" /\ s.log = ""
               => s.exitCode = 0 /\ PrintedRelease(s)
                    /\ (s.dryRun \/ Len(s.posted) = 1))
         /\ (s.pc = "print" => s.err = "nil" /\ s.log = "")
         /\ (s.pc # "main" /\ ~RequiredFlagsGiven(s)
               => Exited(s) /\ s.exitCode # 0 /\ s.exitCode # -1 /\ s.calls = << >>)
         /\ (s.err # "nil"
               => /\ Exited(s) /\ s.exitCode # 0 /\ s.exitCode # -1
                  /\ s.log = s.err
                  /\ s.calls # << >>
                  /\ s.calls[Len(s.calls)] \in
                       { "NewConsumer", "getNpmPackageName", "getLatestVersion",
                         "getPullRequestNumber", "getRepositoryPullRequest", "publishRelease" })
         /\ (s.log # "" => Exited(s) /\ s.exitCode # 0 /\ s.exitCode # -1)

\* a run ended by a failed publish
C9_Witness ==
  \E r \in Runs :
     /\ run[r].err = "transport"
     /\ run[r].calls[Len(run[r].calls)] = "publishRelease"
     /\ run[r].exitCode = 1

---------------------------------------------------------------------------
(* C10 *)

StageCalls ==
  { "NewConsumer", "getNpmPackageName", "getLatestVersion", "getPullRequestNumber",
    "getRepositoryPullRequest", "publishRelease" }

\* C10: once a stage has returned an error the run has ended and the failing
\* call is its last external call; the release output has not been printed;
\* and unless the failing stage is the publish itself, publishRelease has
\* not been called.
C10_NoStageAfterError ==
  \A r \in Runs :
     LET s == run[r]
     IN  s.err # "nil" =>
           /\ Exited(s)
           /\ s.calls # << >>
           /\ s.calls[Len(s.calls)] \in StageCalls
           /\ Count(s.calls, s.calls[Len(s.calls)]) = 1
           /\ NoReleaseOutput(s)
           /\ (s.calls[Len(s.calls)] # "publishRelease"
                 => ~Called(s, "publishRelease") /\ s.posted = << >>)
           /\ (s.calls[Len(s.calls)] = "publishRelease" => Len(s.posted) = 1)

\* the PR-details query failed after the listener and the version stage ran
C10_Witness ==
  \E r \in Runs :
     /\ run[r].err = "graphql"
     /\ run[r].calls[Len(run[r].calls)] = "getRepositoryPullRequest"
     /\ Called(run[r], "ReadMessage") /\ Called(run[r], "getLatestVersion")
     /\ ~run[r].dryRun
     /\ Exited(run[r])

---------------------------------------------------------------------------
(* C11 *)

\* the position of a call in the order of the stages
StageRank(fn) ==
  CASE fn \in {"NewConsumer", "Subscribe"} -> 1
    [] fn = "ReadMessage" -> 2
    [] fn \in {"Unsubscribe", "Close"} -> 3
    [] fn = "getNpmPackageName" -> 4
    [] fn = "getLatestVersion" -> 5
    [] fn = "getPullRequestNumber" -> 6
    [] fn = "getRepositoryPullRequest" -> 7
    [] fn = "publishRelease" -> 8

HostingOrRegistryCalls ==
  { "getNpmPackageName", "getLatestVersion", "getPullRequestNumber",
    "getRepositoryPullRequest", "publishRelease" }

\* C11: the calls of a run follow the order trigger wait, version
\* resolution, commit-to-PR lookup, PR-details fetch, publish;
\* publishRelease is called only after getRepositoryPullRequest has returned
\* the pull request from which the release record was built; and with the
\* trigger stage configured no registry or hosting-service call is made
\* before a matching message has been read.
C11_StageOrder ==
  \A r \in Runs :
     LET s == run[r]
     IN  /\ \A i, j \in DOMAIN s.calls :
              i < j => StageRank(s.calls[i]) <= StageRank(s.calls[j])
         /\ (Called(s, "publishRelease") \/ s.pc = "publishRelease") =>
              /\ Called(s, "getRepositoryPullRequest")
              /\ Resolved(s)
              /\ s.release.Body = s.output
              /\ \A i \in DOMAIN s.posted : s.posted[i] = s.release
         /\ (BrokerAndTopicGiven(s) /\ \E i \in DOMAIN s.calls : s.calls[i] \in HostingOrRegistryCalls) =>
              /\ ListenerReturned(s)
              /\ MatchingRead(s, Len(s.reads))
              /\ \E i \in DOMAIN s.calls :
                    /\ s.calls[i] = "ReadMessage"
                    /\ \A j \in DOMAIN s.calls :
                          s.calls[j] \in HostingOrRegistryCalls => i < j

\* a run through all five stages
C11_Witness ==
  \E r \in Runs :
     run[r].calls = << "NewConsumer", "Subscribe", "ReadMessage", "Unsubscribe", "Close",
                       "getNpmPackageName", "getLatestVersion", "getPullRequestNumber",
                       "getRepositoryPullRequest", "publishRelease" >>

---------------------------------------------------------------------------
(* C12 *)

\* the line of one commit
ChangelogLine(node) ==
  <<"*", " ">> \o node.MessageHeadline \o <<" ", "@">> \o node.Login \o <<"\n">>

\* the length of the first k lines
RECURSIVE LinesLength(_, _)
LinesLength(nodes, k) ==
  IF k = 0 THEN 0 ELSE LinesLength(nodes, k - 1) + Len(ChangelogLine(nodes[k]))

\* C12: for the commit list of the fetched pull request, of length N, the
\* changelog consists of exactly N lines, the i-th being '* ' headline ' @'
\* login and a newline, in the order of the list; it is the body of the
\* release record; the list [{fix bug, alice}, {add test, bob}] gives
\* '* fix bug @alice\n* add test @bob\n'.
C12_ChangelogLines ==
  \A r \in Runs :
     LET s == run[r]
         nodes == s.repository.Nodes
     IN  Resolved(s) =>
           /\ Len(s.output) = LinesLength(nodes, Len(nodes))
           /\ \A i \in DOMAIN nodes :
                 SubSeq(s.output, LinesLength(nodes, i - 1) + 1, LinesLength(nodes, i))
                   = ChangelogLine(nodes[i])
           /\ Cardinality({ k \in DOMAIN s.output : s.output[k] = "\n" }) = Len(nodes)
           /\ s.release.Body = s.output
           /\ (nodes = << [MessageHeadline |-> FixBug, Login |-> Alice],
                          [MessageHeadline |-> AddTest, Login |-> Bob] >>
                 => s.output = << "*", " ", "f", "i", "x", " ", "b", "u", "g", " ", "@",
                                  "a", "l", "i", "c", "e", "\n",
                                  "*", " ", "a", "d", "d", " ", "t", "e", "s", "t", " ", "@",
                                  "b", "o", "b", "\n" >>)

\* the scenario was printed
C12_Witness ==
  \E r \in Runs :
     /\ run[r].repository.Nodes = << [MessageHeadline |-> FixBug, Login |-> Alice],
                                     [MessageHeadline |-> AddTest, Login |-> Bob] >>
     /\ Exited(run[r]) /\ run[r].exitCode = 0
     /\ Len(run[r].stdout) >= 2
     /\ Len(run[r].stdout[Len(run[r].stdout)]) = 33

---------------------------------------------------------------------------
(* C13 *)

\* getPullRequestNumber has just returned without an error
LookupReturned(s) ==
  /\ s.calls # << >> /\ s.calls[Len(s.calls)] = "getPullRequestNumber"
  /\ s.log = ""

\* C13: when getPullRequestNumber returns without an error, pr is 0 for an
\* empty list (and no error is recorded), and otherwise the number of the
\* first element of the list, whatever its length and its other elements.
C13_FirstPullRequestWins ==
  \A r \in Runs :
     LET s == run[r]
     IN  LookupReturned(s) =>
           /\ (s.PRs = << >> => s.pr = 0 /\ s.err = "nil" /\ s.log = "")
           /\ (s.PRs # << >> => s.pr = s.PRs[1])
           /\ (s.pr > 0 => s.pc = "getRepositoryPullRequest")

\* a list of two pull requests: the first is the one to be fetched
C13_Witness ==
  \E r \in Runs :
     /\ LookupReturned(run[r])
     /\ run[r].PRs = << 7, 42 >>
     /\ run[r].pr = 7
     /\ run[r].pc = "getRepositoryPullRequest"

---------------------------------------------------------------------------
(* C14 *)

\* getLatestVersion has returned without an error
VersionReturned(s) ==
  /\ Called(s, "getLatestVersion")
  /\ ~(s.calls[Len(s.calls)] = "getLatestVersion" /\ s.log # "")

\* C14: without --tag, once the registry lookup has returned a version the
\* tag is 'v' followed by that version, unchanged: '2.3.0' gives 'v2.3.0',
\* 'v2.3.0' gives 'vv2.3.0', and the empty version gives 'v', a tag that
\* passes the tag check, so that the run goes on to publish.
C14_TagIsVPlusVersion ==
  \A r \in Runs :
     LET s == run[r]
     IN  VersionReturned(s) =>
           /\ s.argv.tag = Empty
           /\ Len(s.tag) = Len(s.version) + 1
           /\ s.tag[1] = "v"
           /\ SubSeq(s.tag, 2, Len(s.tag)) = s.version
           /\ (s.version = V230 => s.tag = <<"v", "2", ".", "3", ".", "0">>)
           /\ (s.version = VV230 => s.tag = <<"v", "v", "2", ".", "3", ".", "0">>)
           /\ (s.version = Empty => s.tag = <<"v">>)
           /\ s.log # "Need to provide tag to publish release"
           /\ (Resolved(s) => s.release.TagName = s.tag /\ s.release.Name = s.tag)
           /\ \A i \in DOMAIN s.posted : s.posted[i].TagName = s.tag

\* a release with the tag 'v' was posted
C14_Witness ==
  \E r \in Runs :
     /\ VersionReturned(run[r]) /\ run[r].version = Empty
     /\ Len(run[r].posted) = 1 /\ run[r].posted[1].TagName = <<"v">>
     /\ Exited(run[r]) /\ run[r].exitCode = 0

---------------------------------------------------------------------------
(* C15 *)

\* c.Subscribe returned an error (its result is discarded at line 256)
SubscribeFailed(s) == s.consumer = "open" /\ ~s.subscribed

\* C15 as stated: every error raised by an operation of the run, other than
\* an error of the listener's message read, has ended the run with a
\* non-zero status.  (Violated: the error of c.Subscribe is dropped and the
\* run goes on into the read loop.)
C15_EveryErrorFatal ==
  \A r \in Runs :
     LET s == run[r]
     IN  (s.err # "nil" \/ s.log # "" \/ SubscribeFailed(s))
           => Exited(s) /\ s.exitCode # 0 /\ s.exitCode # -1

---------------------------------------------------------------------------
(* C16 *)

\* the channel was closed from outside and a read was made after that
ReadAfterClose(s) == s.closedAt >= 0 /\ Len(s.reads) > s.closedAt

\* C16 as stated, for the external close: a read made after the channel was
\* closed from outside ends the blocking, the listener does not stay in its
\* read loop.  (Violated: the read fails, the error is ignored and the loop
\* goes on.)
C16_CloseEndsBlocking ==
  \A r \in Runs : ReadAfterClose(run[r]) => run[r].pc # "ReadMessage"

\* C16 amended: when the trigger stage runs the process stays in the
\* listener's read loop until a matching message arrives, and nothing else
\* ends the blocking: a step leaves the read loop only by reading a message
\* whose payload contains the repository name, and after the channel was
\* closed from outside the reads fail, the errors are ignored and the
\* process stays in the loop without exiting.
C16_OnlyMatchEndsBlocking ==
  [][ \A r \in Runs :
        /\ (run[r].pc = "ReadMessage" /\ run'[r].pc # "ReadMessage") =>
              /\ Len(run'[r].reads) = Len(run[r].reads) + 1
              /\ MatchingRead(run'[r], Len(run'[r].reads))
              /\ run[r].closedAt = -1
              /\ run'[r].err = "nil" /\ run'[r].log = ""
        /\ (run[r].pc = "ReadMessage" /\ run[r].closedAt >= 0) =>
              /\ run'[r].pc = "ReadMessage"
              /\ run'[r].consumer = "open"
              /\ ~Exited(run'[r])
              /\ (Len(run'[r].reads) > Len(run[r].reads)
                    => run'[r].reads[Len(run'[r].reads)].err) ]_vars

\* the channel was closed, a read failed after that, and the listener waits
C16_Witness ==
  \E r \in Runs :
     /\ ReadAfterClose(run[r])
     /\ run[r].reads[Len(run[r].reads)].err
     /\ run[r].subscribed
     /\ run[r].pc = "ReadMessage"

---------------------------------------------------------------------------
(* C17 *)

\* the index of the last call of fn in the trace, 0 if there is none
LastIndex(s, fn) ==
  IF Called(s, fn)
  THEN CHOOSE i \in DOMAIN s.calls :
         s.calls[i] = fn /\ \A j \in DOMAIN s.calls : s.calls[j] = fn => j <= i
  ELSE 0

\* C17: when the listener has returned with a consumer created, Unsubscribe
\* and then Close were called, once each, right after the last read and
\* before the call of any later stage; the listener has returned only upon
\* a matching message; and after a failed read the run is still in the read
\* loop, not exited, with the consumer neither unsubscribed nor closed.
C17_CleanupOnReturnOnly ==
  \A r \in Runs :
     LET s == run[r]
         n == LastIndex(s, "ReadMessage")
     IN  /\ (Called(s, "NewConsumer") /\ s.err # "kafka"
               /\ s.pc \notin {"NewConsumer", "ReadMessage"}) =>
              /\ s.consumer = "closed"
              /\ n > 0 /\ Len(s.calls) >= n + 2
              /\ s.calls[n + 1] = "Unsubscribe" /\ s.calls[n + 2] = "Close"
              /\ Count(s.calls, "Unsubscribe") = 1 /\ Count(s.calls, "Close") = 1
              /\ MatchingRead(s, Len(s.reads))
         /\ ((Called(s, "Unsubscribe") \/ Called(s, "Close") \/ s.consumer = "closed") =>
               s.reads # << >> /\ MatchingRead(s, Len(s.reads)))
         /\ (s.reads # << >> /\ s.reads[Len(s.reads)].err) =>
              /\ s.pc = "ReadMessage"
              /\ ~Exited(s) /\ s.err = "nil" /\ s.log = ""
              /\ s.consumer = "open"
              /\ ~Called(s, "Unsubscribe") /\ ~Called(s, "Close")

\* a failed read, then the matching message: the consumer was unsubscribed
\* and closed and the version stage has started
C17_Witness ==
  \E r \in Runs :
     /\ run[r].reads = << [err |-> TRUE, Value |-> Empty],
                          [err |-> FALSE, Value |-> MsgWidget] >>
     /\ run[r].calls = << "NewConsumer", "Subscribe", "ReadMessage", "ReadMessage",
                          "Unsubscribe", "Close", "getNpmPackageName" >>

---------------------------------------------------------------------------
(* C18 *)

\* the run ended in the publish stage
PublishFailed(s) ==
  /\ Exited(s) /\ s.exitCode # 0
  /\ s.calls # << >> /\ s.calls[Len(s.calls)] = "publishRelease"

\* C18: when the HTTP exchange of the publish request has completed with a
\* response, whatever its status (201, or 422 for a rejected release),
\* publishRelease has returned no error and the run prints the release
\* output and exits with 0; the publish stage fails only when no response
\* was obtained.
C18_AnyResponseIsSuccess ==
  \A r \in Runs :
     LET s == run[r]
     IN  /\ s.status # 0 =>
              /\ Called(s, "publishRelease")
              /\ s.err = "nil" /\ s.log = ""
              /\ s.pc \in {"print", "exited"}
              /\ (Exited(s) => s.exitCode = 0 /\ PrintedRelease(s))
         /\ (PublishFailed(s) => s.status = 0 /\ s.log \in {"transport", "newRequest"})
         /\ (Called(s, "publishRelease") /\ ~PublishFailed(s) => s.status \in {201, 422})

\* the service rejected the release and the run reported success
C18_Witness ==
  \E r \in Runs :
     /\ run[r].status = 422
     /\ Exited(run[r]) /\ run[r].exitCode = 0
     /\ PrintedRelease(run[r])

---------------------------------------------------------------------------
(* C19 *)

\* the pull-request stage is over without a fatal error
PullRequestResolved(s) ==
  /\ s.pc \notin { "main", "NewConsumer", "ReadMessage", "getNpmPackageName",
                   "getLatestVersion", "getPullRequestNumber" }
  /\ ~(s.log # "" /\ ~Called(s, "getRepositoryPullRequest"))

\* C19: when pr is not positive after the pull-request stage (an empty list
\* from the lookup, or a negative --pr), the run has made no PR-details
\* query, built no changelog and no release, called no publish, printed no
\* release output, and has ended with status 0 and without a fatal message.
C19_NoPullRequestNoRelease ==
  \A r \in Runs :
     LET s == run[r]
     IN  /\ s.pr <= 0 =>
              /\ ~Called(s, "getRepositoryPullRequest") /\ s.prQueries = << >>
              /\ s.output = Empty /\ ~Resolved(s)
              /\ ~Called(s, "publishRelease") /\ s.posted = << >>
              /\ NoReleaseOutput(s)
         /\ (PullRequestResolved(s) /\ s.pr <= 0) =>
              /\ Exited(s) /\ s.exitCode = 0
              /\ s.log = "" /\ s.err = "nil"
         /\ (LookupReturned(s) /\ s.PRs = << >>) => (s.pr = 0 /\ Exited(s) /\ s.exitCode = 0)
         /\ (s.argv.pr < 0 => s.pr = s.argv.pr /\ ~Called(s, "getPullRequestNumber"))

\* the lookup found no pull request and the run ended normally
C19_Witness ==
  \E r \in Runs :
     /\ LookupReturned(run[r]) /\ run[r].PRs = << >>
     /\ run[r].pr = 0
     /\ Exited(run[r]) /\ run[r].exitCode = 0
     /\ run[r].calls[Len(run[r].calls)] = "getPullRequestNumber"

---------------------------------------------------------------------------
(* C20 *)

\* C20: at the tag check of line 221 the tag is non-empty, being either the
\* non-empty --tag or 'v' followed by the version, so that no run ends with
\* 'Need to provide tag to publish release'.
C20_TagCheckNeverFails ==
  \A r \in Runs :
     LET s == run[r]
     IN  /\ (s.pc = "getRepositoryPullRequest" \/ Called(s, "getRepositoryPullRequest")) =>
              /\ s.tag # Empty
              /\ \/ (s.argv.tag # Empty /\ s.tag = s.argv.tag)
                 \/ (s.argv.tag = Empty /\ s.tag = <<"v">> \o s.version)
         /\ s.log # "Need to provide tag to publish release"

\* the shortest tag, 'v', has passed the tag check
C20_Witness ==
  \E r \in Runs :
     /\ run[r].argv.tag = Empty /\ run[r].version = Empty
     /\ run[r].tag = <<"v">>
     /\ Called(run[r], "getRepositoryPullRequest") /\ Resolved(run[r])

====
